---- MODULE Spec2Model ----
(***************************************************************************)
(* Email Analyzer front end (frontend/src/App.js): the router with its     *)
(* ProtectedRoute guard, the Login view, and the Dashboard component with  *)
(* its email list, metrics cards and search controls.                      *)
(*                                                                         *)
(* The session (AuthProvider / useAuth, imported from                      *)
(* ./contexts/AuthContext) is not part of the source file; its state       *)
(* machine is taken from the specification, sections 3 and 4.2.            *)
(*                                                                         *)
(* Fractions of the source are kept in tenths: 0.8 is 8, 2.5 is 25.        *)
(***************************************************************************)
EXTENDS Integers, Sequences, FiniteSets, TLC

VARIABLES
    status,       \* SessionState.status
    accessToken,  \* SessionState.accessToken, or Absent
    expiresAt,    \* SessionState.expiresAt, or NoExpiry
    authError,    \* the AuthError surfaced to the user, or NoError
    now,          \* wall clock
    location,     \* the view the browser shows: a route of App, or External
    emails,       \* Dashboard: useState([])
    metrics,      \* Dashboard: useState({total_emails: 0, ...})
    loading,      \* Dashboard: useState(true)
    searchText    \* value of the "Search emails..." input element

vars == <<status, accessToken, expiresAt, authError, now, location,
          emails, metrics, loading, searchText>>

session == <<status, accessToken, expiresAt, authError>>
dashboard == <<emails, metrics, loading, searchText>>

----------------------------------------------------------------------------
(* Bounds *)

MaxTime == 3
MaxTTL == 2
MaxRecords == 3

----------------------------------------------------------------------------
(* Values *)

Absent == "absent"
Token == "token"
NoExpiry == -1
NoError == "none"
ExchangeErrors == {"denied_consent", "network_error", "invalid_code"}
NullTime == -1

LoginPath == "/login"
DashboardPath == "/dashboard"
RootPath == "/"
External == "login.microsoftonline.com"
Paths == {LoginPath, DashboardPath, RootPath}

Queries == {"", "invoice", "project"}

----------------------------------------------------------------------------
(* Dashboard data: the literals of the mount effect *)

HighPriorityThreshold == 7

Email1 ==
    [email_id |-> "1",
     subject |-> "Project Update Meeting",
     sender |-> "john@example.com",
     category |-> "Work",
     analysis_results |->
        [priority_score |-> 8,
         sentiment |-> [label |-> "positive", score |-> 9],
         summary |-> "Weekly project status update discussion",
         suggested_actions |-> <<"Schedule meeting", "Prepare report">>]]

Email2 ==
    [email_id |-> "2",
     subject |-> "Invoice Payment Due",
     sender |-> "billing@company.com",
     category |-> "Finance",
     analysis_results |->
        [priority_score |-> 9,
         sentiment |-> [label |-> "neutral", score |-> 5],
         summary |-> "Payment reminder for recent services",
         suggested_actions |-> <<"Review invoice", "Process payment">>]]

MockEmails == <<Email1, Email2>>

EmptyMap == [k \in {} |-> 0]

InitialMetrics ==
    [total_emails |-> 0,
     categories |-> EmptyMap,
     sentiment_distribution |-> EmptyMap,
     priority_distribution |-> EmptyMap,
     avg_response_time |-> NullTime]

MockMetrics ==
    [total_emails |-> 245,
     categories |-> [Work |-> 45, Finance |-> 28, Personal |-> 32],
     sentiment_distribution |-> [positive |-> 120, neutral |-> 85, negative |-> 40],
     priority_distribution |-> [high |-> 58, medium |-> 142, low |-> 45],
     avg_response_time |-> 25]

----------------------------------------------------------------------------
(* Rendering *)

\* The priority badge of one list item.
PriorityBadge(email) ==
    IF email.analysis_results.priority_score > HighPriorityThreshold
    THEN "High Priority"
    ELSE "Normal"

\* The category badge colour of one list item.
CategoryBadge(email) ==
    IF email.category = "Work" THEN "blue" ELSE "purple"

\* One <li> of the email list.
EmailListItem(email) ==
    [key |-> email.email_id,
     subject |-> email.subject,
     priority |-> PriorityBadge(email),
     sender |-> email.sender,
     category |-> email.category,
     categoryColour |-> CategoryBadge(email),
     summary |-> email.analysis_results.summary,
     actions |-> email.analysis_results.suggested_actions]

\* A faulty list: the first record is rendered twice.
EmailListDuplicating(es) ==
    IF Len(es) = 0
    THEN << >>
    ELSE <<EmailListItem(es[1])>> \o [i \in 1..Len(es) |-> EmailListItem(es[i])]

\* emails.map(...): the list shown under "Recent Emails". The rendering
\* reads the emails only, never the search input.
EmailList(es) ==
    [i \in 1..Len(es) |-> EmailListItem(es[i])]

----------------------------------------------------------------------------
(* Session store and route guard *)

\* useAuth().isAuthenticated
isAuthenticated(st) == st = "authenticated"

\* A faulty guard: the children are rendered whatever the session is.
ProtectedRouteOpen(auth) == DashboardPath

\* ProtectedRoute: the children (the dashboard) or <Navigate to="/login" />.
ProtectedRoute(auth) == IF auth THEN DashboardPath ELSE LoginPath

\* <Routes>: the view a path ends on.
App(path, auth) ==
    CASE path = LoginPath -> LoginPath
      [] path = DashboardPath -> ProtectedRoute(auth)
      [] path = RootPath -> ProtectedRoute(auth)

\* The browser shows view newLoc. A Dashboard that stays mounted keeps its
\* state; one that is mounted anew starts from its useState values.
Render(newLoc) ==
    /\ location' = newLoc
    /\ IF location = DashboardPath /\ newLoc = DashboardPath
       THEN UNCHANGED dashboard
       ELSE /\ emails' = << >>
            /\ metrics' = InitialMetrics
            /\ loading' = TRUE
            /\ searchText' = ""

\* The context value changed: the consumers of useAuth render again.
Rerender(st) ==
    Render(IF location = DashboardPath
           THEN ProtectedRoute(isAuthenticated(st))
           ELSE location)

----------------------------------------------------------------------------
(* Initial state: the application is opened, nobody is signed in *)

Init ==
    /\ status = "anonymous"
    /\ accessToken = Absent
    /\ expiresAt = NoExpiry
    /\ authError = NoError
    /\ now = 0
    /\ location = LoginPath
    /\ emails = << >>
    /\ metrics = InitialMetrics
    /\ loading = TRUE
    /\ searchText = ""

----------------------------------------------------------------------------
(* Router and Login view *)

\* The browser is sent to a path of the application (a link, the address
\* bar, or the identity provider's redirect back).
Navigate(path) ==
    /\ Render(App(path, isAuthenticated(status)))
    /\ UNCHANGED <<session, now>>

\* "Sign in with Microsoft": window.location.href is set to the authorize
\* URL. The handler calls nothing else.
handleMicrosoftLogin ==
    /\ location = LoginPath
    /\ Render(External)
    /\ UNCHANGED <<session, now>>

----------------------------------------------------------------------------
(* Session state machine (specification 4.2) *)

\* A faulty login: the session is signed in without any exchange.
loginSkipsExchange ==
    /\ status = "anonymous"
    /\ location # External
    /\ status' = "authenticated"
    /\ authError' = NoError
    /\ UNCHANGED <<accessToken, expiresAt, now>>
    /\ Render(External)

\* login(): from anonymous to pending, then away to the identity provider.
login ==
    /\ status = "anonymous"
    /\ location # External
    /\ status' = "pending"
    /\ authError' = NoError
    /\ UNCHANGED <<accessToken, expiresAt, now>>
    /\ Render(External)

\* The code was exchanged for a token that lives ttl ticks.
exchangeSuccess(ttl) ==
    /\ status = "pending"
    /\ location # External
    /\ status' = "authenticated"
    /\ accessToken' = Token
    /\ expiresAt' = now + ttl
    /\ UNCHANGED <<authError, now>>
    /\ Rerender("authenticated")

\* A faulty failure path: the error is surfaced but the session is signed in.
exchangeFailureSignsIn(err) ==
    /\ status = "pending"
    /\ location # External
    /\ status' = "authenticated"
    /\ accessToken' = Token
    /\ expiresAt' = now + 1
    /\ authError' = err
    /\ UNCHANGED now
    /\ Rerender("authenticated")

\* The exchange failed: back to anonymous, the AuthError is surfaced.
exchangeFailure(err) ==
    /\ status = "pending"
    /\ location # External
    /\ status' = "anonymous"
    /\ accessToken' = Absent
    /\ expiresAt' = NoExpiry
    /\ authError' = err
    /\ UNCHANGED now
    /\ Rerender("anonymous")

\* A faulty timeout: it never fires.
exchangeTimeoutNever ==
    /\ FALSE
    /\ UNCHANGED vars

\* The pending exchange timed out or was cancelled.
exchangeTimeout ==
    /\ status = "pending"
    /\ status' = "anonymous"
    /\ accessToken' = Absent
    /\ expiresAt' = NoExpiry
    /\ authError' = "timeout"
    /\ UNCHANGED now
    /\ Rerender("anonymous")

\* logout(): from any state to anonymous, the token is cleared.
logout ==
    /\ location # External
    /\ status' = "anonymous"
    /\ accessToken' = Absent
    /\ expiresAt' = NoExpiry
    /\ UNCHANGED <<authError, now>>
    /\ Rerender("anonymous")

\* The expiry transition: authenticated to anonymous once the token expired.
expire ==
    /\ status = "authenticated"
    /\ now >= expiresAt
    /\ status' = "anonymous"
    /\ accessToken' = Absent
    /\ expiresAt' = NoExpiry
    /\ authError' = "expired_session"
    /\ UNCHANGED now
    /\ Rerender("anonymous")

\* Time passes.
Tick ==
    /\ now < MaxTime
    /\ now' = now + 1
    /\ UNCHANGED <<session, location, dashboard>>

----------------------------------------------------------------------------
(* Dashboard *)

\* The mount effect: the mock emails and the mock metrics are set.
useEffect ==
    /\ location = DashboardPath
    /\ loading
    /\ emails' = MockEmails
    /\ metrics' = MockMetrics
    /\ loading' = FALSE
    /\ UNCHANGED <<session, now, location, searchText>>

\* Whether a record would be kept by a text query.
Matches(email, q) ==
    \/ q = ""
    \/ q = "invoice" /\ email.email_id = "2"
    \/ q = "project" /\ email.email_id = "1"

\* A faulty search box: typing narrows the stored emails themselves.
SearchInputFiltering(q) ==
    /\ location = DashboardPath
    /\ searchText' = q
    /\ emails' = SelectSeq(emails, LAMBDA e : Matches(e, q))
    /\ UNCHANGED <<session, now, location, metrics, loading>>

\* Typing in the "Search emails..." input: it has no onChange handler, the
\* text lives in the input element only.
SearchInput(q) ==
    /\ location = DashboardPath
    /\ searchText' = q
    /\ UNCHANGED <<session, now, location, emails, metrics, loading>>

\* A click on the Filter button: it has no onClick handler.
FilterButton ==
    /\ location = DashboardPath
    /\ UNCHANGED vars

----------------------------------------------------------------------------
(* Specifications *)

exchangeSucceeds == \E ttl \in 1..MaxTTL : exchangeSuccess(ttl)
exchangeFails == \E err \in ExchangeErrors : exchangeFailure(err)

Next ==
    \/ \E path \in Paths : Navigate(path)
    \/ handleMicrosoftLogin
    \/ login
    \/ exchangeSucceeds
    \/ exchangeFails
    \/ exchangeTimeout
    \/ logout
    \/ expire
    \/ Tick
    \/ useEffect
    \/ \E q \in Queries : SearchInput(q)
    \/ FilterButton

Spec == Init /\ [][Next]_vars

\* The exchange and the timeout are scheduled: none of them is postponed
\* forever while it stays possible.
FairSpec ==
    /\ Spec
    /\ WF_vars(exchangeSucceeds)
    /\ WF_vars(exchangeFails)
    /\ WF_vars(exchangeTimeout)

----------------------------------------------------------------------------
(* Helpers of the properties *)

RECURSIVE SumValues(_)
\* The sum of the counts of a distribution.
SumValues(f) ==
    IF DOMAIN f = {}
    THEN 0
    ELSE LET k == CHOOSE x \in DOMAIN f : TRUE
         IN f[k] + SumValues([x \in DOMAIN f \ {k} |-> f[x]])

\* The count a distribution shows for a bucket: an omitted bucket counts 0.
CountOf(f, k) == IF k \in DOMAIN f THEN f[k] ELSE 0

\* The number of records that satisfy P.
CountWhere(es, P(_)) == Cardinality({i \in 1..Len(es) : P(es[i])})

RECURSIVE IsSubsequence(_, _)
\* a can be obtained from b by deleting elements.
IsSubsequence(a, b) ==
    IF Len(a) = 0 THEN TRUE
    ELSE IF Len(b) = 0 THEN FALSE
    ELSE IF Head(a) = Head(b) THEN IsSubsequence(Tail(a), Tail(b))
    ELSE IsSubsequence(a, Tail(b))

Keys(items) == [i \in 1..Len(items) |-> items[i].key]
Ids(es) == [i \in 1..Len(es) |-> es[i].email_id]

\* Record sequences up to MaxRecords, to exercise the list rendering.
RecordSeqs == UNION {[1..n -> {Email1, Email2}] : n \in 0..MaxRecords}

\* The route guard's answer for the current session.
canAccess == ProtectedRoute(isAuthenticated(status)) = DashboardPath

\* The edges of the authentication state machine.
Transitions ==
    {<<"anonymous", "pending">>, <<"pending", "authenticated">>,
     <<"pending", "anonymous">>, <<"authenticated", "anonymous">>}

----------------------------------------------------------------------------
(* Properties *)

\* C1: the route guard permits the dashboard if and only if the session
\* status is authenticated; the dashboard is never shown otherwise, and a
\* navigation to a guarded path that is denied ends on the login view.
C1_RouteGuard ==
    /\ [](canAccess <=> status = "authenticated")
    /\ [](location = DashboardPath => status = "authenticated")
    /\ [][\A path \in {DashboardPath, RootPath} :
            Navigate(path) =>
                location' = IF status = "authenticated"
                            THEN DashboardPath ELSE LoginPath]_vars

C1_Witness ==
    /\ location = DashboardPath
    /\ status = "authenticated"
    /\ canAccess

\* C2: in every state of the dashboard the category counts, the sentiment
\* counts and the priority counts each sum to total_emails.
C2_MetricsSums ==
    /\ SumValues(metrics.categories) = metrics.total_emails
    /\ SumValues(metrics.sentiment_distribution) = metrics.total_emails
    /\ SumValues(metrics.priority_distribution) = metrics.total_emails

C5_FailedExchange ==
    /\ [](authError # NoError =>
            (status = "anonymous" /\ accessToken = Absent
             /\ expiresAt = NoExpiry))
    /\ [][exchangeFails =>
            (/\ status = "pending"
             /\ status' = "anonymous"
             /\ accessToken' = Absent
             /\ authError' \in ExchangeErrors
             /\ location' = LoginPath)]_vars

C5_Witness ==
    /\ authError \in ExchangeErrors
    /\ status = "anonymous"
    /\ accessToken = Absent

\* C6: using the search box or the Filter button changes neither the
\* stored emails nor the metrics.
C6_FilterFrame ==
    [][(\/ \E q \in Queries : SearchInput(q)
        \/ FilterButton
        \/ (searchText' # searchText /\ location' = location))
       => (emails' = emails /\ metrics' = metrics)]_vars

C6_Witness ==
    /\ searchText # ""
    /\ emails = MockEmails
    /\ metrics = MockMetrics

\* C7: the list shown is an order-preserving subsequence of the stored
\* emails, every item shown is the rendering of a stored email, and with
\* an empty search text the list is exactly the stored emails in order.
C7_DisplayedSubsequence ==
    /\ IsSubsequence(Keys(EmailList(emails)), Ids(emails))
    /\ \A i \in 1..Len(EmailList(emails)) :
          \E j \in 1..Len(emails) : EmailList(emails)[i] = EmailListItem(emails[j])
    /\ searchText = "" => Keys(EmailList(emails)) = Ids(emails)
    /\ \A es \in RecordSeqs :
          /\ IsSubsequence(Keys(EmailList(es)), Ids(es))
          /\ Keys(EmailList(es)) = Ids(es)

C7_Witness ==
    /\ location = DashboardPath
    /\ searchText = "invoice"
    /\ Len(EmailList(emails)) = 2

\* C9: after the data load the metrics equal the recomputation over the
\* emails held: total_emails is their number, each category and sentiment
\* count is the number of emails with that value, and the high priority
\* count is the number of emails that carry the "High Priority" badge.
C9_MetricsRecomputed ==
    ~loading =>
        /\ metrics.total_emails = Len(emails)
        /\ \A c \in DOMAIN metrics.categories \cup {"Work", "Finance"} :
              CountOf(metrics.categories, c)
                = CountWhere(emails, LAMBDA e : e.category = c)
        /\ \A l \in DOMAIN metrics.sentiment_distribution
                    \cup {"positive", "neutral", "negative"} :
              CountOf(metrics.sentiment_distribution, l)
                = CountWhere(emails,
                             LAMBDA e : e.analysis_results.sentiment.label = l)
        /\ CountOf(metrics.priority_distribution, "high")
              = CountWhere(emails, LAMBDA e : PriorityBadge(e) = "High Priority")

====
